---- MODULE Spec2Model ----
(***************************************************************************)
(* GenericInput (src/inputs/GenericInput.js): a global, append-only        *)
(* registry of sync classes and one aggregator object that instantiates   *)
(* registered classes and wires them to its two EventHandlers.            *)
(*                                                                         *)
(* Every handler is one atomic action (the program is single-threaded and  *)
(* every call runs to completion).  Each action records the call it models *)
(* in `call`, its outcome in `err`, and the calls it made on collaborators *)
(* during that one handler in `optCalls`, `heard` and `fed`.               *)
(***************************************************************************)
EXTENDS Integers, Sequences, FiniteSets, TLC

\* ---------------------------------------------------------------- bounds
MaxEntries == 2      \* longest mapping handed to register
MaxSyncs   == 2      \* longest sequence / mapping handed to addInput
MaxInst    == 3      \* sync instances created over the aggregator's life

\* ---------------------------------------------------------------- values
Keys      == {"mouse", "touch"}
Factories == {"MouseInput", "TouchInput"}
NoFactory == "undefined"              \* registry[key] of an unregistered key
\* `registry` and `this._syncs` are plain objects ({}): under a name that
\* Object.prototype defines, a lookup of a key that was never stored yields the
\* inherited member.  One such name stands for them; its member is a function
\* that is no constructor and has no subscribe method.
ProtoKeys == {"toString"}
Inherited == "Object.prototype.toString"
AllKeys   == Keys \cup ProtoKeys
Opts      == {"o1", "o2"}
NoOpts    == "undefined"              \* a missing options argument
Types     == {"start", "update", "end"}
Payloads  == {"P1", "P2"}
\* the events emitted: each type once, both payloads used
Events    == {ev \in [type : Types, payload : Payloads] :
                ev.payload = IF ev.type = "update" THEN "P2" ELSE "P1"}
Listeners == {"L1", "L2"}
InstIds   == 1..MaxInst
NoInst    == 0                        \* this._syncs[key] of an absent key

VARIABLES
    registry,     \* the module-level registry: key -> factory or NoFactory
    constructed,  \* has `new GenericInput(..)` run
    insts,        \* every instance created so far: its key and its factory
    syncs,        \* this._syncs: key -> instance id or NoInst
    srcSubs,      \* instances that have this._eventInput among their subscribers
    outSubs,      \* subscribers of this._eventOutput (instance ids)
    listeners,    \* external listeners subscribed to this._eventInput
    cut,          \* instances that unsubscribeInput reached and subscribeInput has
                  \* not reached since
    call,         \* the last call made on the module
    err,          \* its outcome: "none", "Error" (thrown by register), "TypeError"
    made,         \* `new (registry[key])(options)` calls made by the last call
    optCalls,     \* per instance: setOptions invocations made by the last call
    sunk,         \* events the input sink received during the last call
    heard,        \* per listener: events delivered to it by the last call
    fed           \* per instance: events delivered to it by the last call

vars == <<registry, constructed, insts, syncs, srcSubs, outSubs, listeners,
          cut, call, err, made, optCalls, sunk, heard, fed>>

\* ------------------------------------------------------------ input sets
SeqsUpTo(S, n) == UNION {[1..m -> S] : m \in 0..n}

DistinctKeys(s) == \A i, j \in 1..Len(s) : i # j => s[i].key # s[j].key

\* a JS object {key : factory}, in its for-in (insertion) order
EntriesSet ==
    {e \in SeqsUpTo([key : Keys, factory : Factories], MaxEntries) : DistinctKeys(e)}

\* Arrays that hold an inherited name: alone, before and after a sync key
ProtoSeqs ==
    UNION {{<<p>>} \cup UNION {{<<k, p>>, <<p, k>>} : k \in Keys} : p \in ProtoKeys}

\* the `syncs` argument: undefined, an Array of keys, an Object {key : options},
\* or a truthy value that is neither (a string, a number)
SyncsArgs ==
    {[form |-> "seq", items |-> [i \in 1..Len(ks) |-> [key |-> ks[i], options |-> NoOpts]]]
        : ks \in SeqsUpTo(Keys, MaxSyncs) \cup ProtoSeqs}
    \cup {[form |-> "map", items |-> m]
        : m \in {x \in SeqsUpTo([key : Keys, options : Opts], MaxSyncs) : DistinctKeys(x)}}
    \cup {[form |-> "other", items |-> <<>>]}

NoSyncs == [form |-> "undefined", items |-> <<>>]

\* ------------------------------------------------------------- registry
\* variant: a key that is present is refused, the identical factory included
RECURSIVE registerFrom_refuseRepeat(_, _, _)
registerFrom_refuseRepeat(reg, e, i) ==
    IF i > Len(e) THEN [registry |-> reg, err |-> "none"]
    ELSE IF reg[e[i].key] # NoFactory
         THEN [registry |-> reg, err |-> "Error"]
         ELSE registerFrom_refuseRepeat([reg EXCEPT ![e[i].key] = e[i].factory], e, i + 1)

RECURSIVE registerFrom(_, _, _)
registerFrom(reg, e, i) ==
    IF i > Len(e) THEN [registry |-> reg, err |-> "none"]
    ELSE IF reg[e[i].key] # NoFactory
         THEN IF reg[e[i].key] = e[i].factory
              THEN [registry |-> reg, err |-> "none"]      \* `return`
              ELSE [registry |-> reg, err |-> "Error"]     \* `throw`
         ELSE registerFrom([reg EXCEPT ![e[i].key] = e[i].factory], e, i + 1)

NoEffects ==
    /\ made' = <<>>
    /\ optCalls' = [i \in InstIds |-> <<>>]
    /\ sunk' = <<>>
    /\ heard' = [l \in Listeners |-> <<>>]
    /\ fed' = [i \in InstIds |-> <<>>]

register(e) ==
    /\ LET r == registerFrom(registry, e, 1) IN
        /\ registry' = r.registry
        /\ err' = r.err
    /\ call' = [op |-> "register", arg |-> e,
                again |-> call.op = "register" /\ call.arg = e /\ err = "none"]
    /\ NoEffects
    /\ UNCHANGED <<constructed, insts, syncs, srcSubs, outSubs, listeners, cut>>

\* --------------------------------------------------- event-emitter capability
\* x.subscribe(sink): sink joins x's subscribers (a sink is subscribed or not)
subscribe(subs, sink) == subs \cup {sink}

\* x.unsubscribe(sink): sink leaves x's subscribers
unsubscribe(subs, sink) == subs \ {sink}

\* one emission of ev: each current subscriber among `all` receives ev once
emit(subs, all, ev) == [x \in all |-> IF x \in subs THEN <<ev>> ELSE <<>>]

\* ----------------------------------------------------------- aggregator
\* registry[key]
lookup(key) == IF key \in Keys THEN registry[key] ELSE Inherited

\* this._syncs[key], when it is a sync instance
heldUnder(key) == IF key \in Keys THEN syncs[key] ELSE NoInst

AggState == [insts |-> insts, syncs |-> syncs, srcSubs |-> srcSubs, outSubs |-> outSubs,
             made |-> <<>>, err |-> "none"]

\* variant: `sync.subscribe(this._eventInput)` left out
subscribeSync_noInput(st, key) ==
    [st EXCEPT !.outSubs = subscribe(st.outSubs, st.syncs[key])]

\* variant: `this._eventOutput.subscribe(sync)` left out
subscribeSync_noOutput(st, key) ==
    [st EXCEPT !.srcSubs = subscribe(st.srcSubs, st.syncs[key])]

\* subscribeInput on a key that holds an instance
subscribeSync(st, key) ==
    [st EXCEPT !.srcSubs = subscribe(st.srcSubs, st.syncs[key]),
               !.outSubs = subscribe(st.outSubs, st.syncs[key])]

\* variant: `this._eventOutput.unsubscribe(sync)` left out
unsubscribeSync_inputOnly(st, key) ==
    [st EXCEPT !.srcSubs = unsubscribe(st.srcSubs, st.syncs[key])]

\* unsubscribeInput on a key that holds an instance
unsubscribeSync(st, key) ==
    [st EXCEPT !.srcSubs = unsubscribe(st.srcSubs, st.syncs[key]),
               !.outSubs = unsubscribe(st.outSubs, st.syncs[key])]

\* variant: the instance is constructed without the options
_addSingleInput_noOptions(st, key, options) ==
    IF lookup(key) = NoFactory THEN st
    ELSE IF lookup(key) \notin Factories
    THEN [st EXCEPT !.err = "TypeError"]        \* `new` of what is no constructor
    ELSE LET id   == Len(st.insts) + 1
             held == [st EXCEPT
                        !.insts = Append(@, [key |-> key, factory |-> registry[key]]),
                        !.made  = Append(@, [inst |-> id, factory |-> registry[key],
                                             options |-> NoOpts]),
                        !.syncs[key] = id]
         IN  subscribeSync(held, key)

\* variant: an instance already held under the key is unsubscribed before it
\* is replaced
_addSingleInput_disposePrior(st, key, options) ==
    IF lookup(key) = NoFactory THEN st
    ELSE IF lookup(key) \notin Factories
    THEN [st EXCEPT !.err = "TypeError"]        \* `new` of what is no constructor
    ELSE LET id   == Len(st.insts) + 1
             free == IF st.syncs[key] # NoInst THEN unsubscribeSync(st, key) ELSE st
             held == [free EXCEPT
                        !.insts = Append(@, [key |-> key, factory |-> registry[key]]),
                        !.made  = Append(@, [inst |-> id, factory |-> registry[key],
                                             options |-> options]),
                        !.syncs[key] = id]
         IN  subscribeSync(held, key)

_addSingleInput(st, key, options) ==
    IF lookup(key) = NoFactory THEN st
    ELSE IF lookup(key) \notin Factories
    THEN [st EXCEPT !.err = "TypeError"]        \* `new` of what is no constructor
    ELSE LET id   == Len(st.insts) + 1
             held == [st EXCEPT
                        !.insts = Append(@, [key |-> key, factory |-> registry[key]]),
                        !.made  = Append(@, [inst |-> id, factory |-> registry[key],
                                             options |-> options]),
                        !.syncs[key] = id]
         IN  subscribeSync(held, key)

RECURSIVE addSyncFrom(_, _, _)
addSyncFrom(st, items, i) ==
    IF i > Len(items) \/ st.err # "none" THEN st
    ELSE addSyncFrom(_addSingleInput(st, items[i].key, items[i].options), items, i + 1)

\* addInput: the Array branch, the Object branch, or neither
addSync(st, arg) ==
    IF arg.form \in {"seq", "map"} THEN addSyncFrom(st, arg.items, 1) ELSE st

\* variant: the options-update is called without the options
setOptionsCalls_noArg(held, options) ==
    [i \in InstIds |-> IF \E k \in Keys : held[k] = i THEN <<NoOpts>> ELSE <<>>]

\* setOptions: one options-update call per instance held in this._syncs
setOptionsCalls(held, options) ==
    [i \in InstIds |-> IF \E k \in Keys : held[k] = i THEN <<options>> ELSE <<>>]

Install(st) ==
    /\ Len(st.insts) <= MaxInst
    /\ insts' = st.insts
    /\ syncs' = st.syncs
    /\ srcSubs' = st.srcSubs
    /\ outSubs' = st.outSubs
    /\ made' = st.made

\* a constructor that throws yields no aggregator: what it built is dropped
GenericInput(arg, options) ==
    /\ ~constructed
    /\ LET st == IF arg.form # "undefined" THEN addSync(AggState, arg) ELSE AggState IN
        IF st.err # "none"
        THEN /\ constructed' = FALSE
             /\ made' = <<>>
             /\ optCalls' = [i \in InstIds |-> <<>>]
             /\ err' = st.err
             /\ UNCHANGED <<insts, syncs, srcSubs, outSubs>>
        ELSE /\ constructed' = TRUE
             /\ Install(st)
             /\ optCalls' = IF options # NoOpts THEN setOptionsCalls(st.syncs, options)
                            ELSE [i \in InstIds |-> <<>>]
             /\ err' = "none"
    /\ sunk' = <<>>
    /\ heard' = [l \in Listeners |-> <<>>]
    /\ fed' = [i \in InstIds |-> <<>>]
    /\ call' = [op |-> "new", arg |-> arg, options |-> options]
    /\ UNCHANGED <<registry, listeners, cut>>

\* a throw inside the loop leaves what the earlier keys did in place
addInput(arg) ==
    /\ constructed
    /\ LET st == addSync(AggState, arg) IN
        /\ Install(st)
        /\ err' = st.err
    /\ optCalls' = [i \in InstIds |-> <<>>]
    /\ sunk' = <<>>
    /\ heard' = [l \in Listeners |-> <<>>]
    /\ fed' = [i \in InstIds |-> <<>>]
    /\ call' = [op |-> "addInput", arg |-> arg]
    /\ UNCHANGED <<registry, constructed, listeners, cut>>

setOptions(options) ==
    /\ constructed
    /\ optCalls' = setOptionsCalls(syncs, options)
    /\ made' = <<>>
    /\ sunk' = <<>>
    /\ heard' = [l \in Listeners |-> <<>>]
    /\ fed' = [i \in InstIds |-> <<>>]
    /\ call' = [op |-> "setOptions", options |-> options]
    /\ err' = "none"
    /\ UNCHANGED <<registry, constructed, insts, syncs, srcSubs, outSubs, listeners, cut>>

\* `this._syncs[key]` of an absent key has no subscribe method: the call throws
subscribeInput(key) ==
    /\ constructed
    /\ IF heldUnder(key) = NoInst
       THEN /\ err' = "TypeError"
            /\ made' = <<>>
            /\ UNCHANGED <<insts, syncs, srcSubs, outSubs, cut>>
       ELSE /\ err' = "none"
            /\ Install(subscribeSync(AggState, key))
            /\ cut' = cut \ {syncs[key]}
    /\ optCalls' = [i \in InstIds |-> <<>>]
    /\ sunk' = <<>>
    /\ heard' = [l \in Listeners |-> <<>>]
    /\ fed' = [i \in InstIds |-> <<>>]
    /\ call' = [op |-> "subscribeInput", key |-> key]
    /\ UNCHANGED <<registry, constructed, listeners>>

unsubscribeInput(key) ==
    /\ constructed
    /\ IF heldUnder(key) = NoInst
       THEN /\ err' = "TypeError"
            /\ made' = <<>>
            /\ UNCHANGED <<insts, syncs, srcSubs, outSubs, cut>>
       ELSE /\ err' = "none"
            /\ Install(unsubscribeSync(AggState, key))
            /\ cut' = cut \cup {syncs[key]}
    /\ optCalls' = [i \in InstIds |-> <<>>]
    /\ sunk' = <<>>
    /\ heard' = [l \in Listeners |-> <<>>]
    /\ fed' = [i \in InstIds |-> <<>>]
    /\ call' = [op |-> "unsubscribeInput", key |-> key]
    /\ UNCHANGED <<registry, constructed, listeners>>

\* ------------------------------------------------------------ environment
\* an external listener subscribes to the aggregator's input sink; listeners
\* are interchangeable, so "L1" is taken to be the first to subscribe
ListenerSubscribe(l) ==
    /\ constructed
    /\ l \notin listeners
    /\ l = "L1" \/ "L1" \in listeners
    /\ listeners' = subscribe(listeners, l)
    /\ NoEffects
    /\ call' = [op |-> "listen", listener |-> l]
    /\ err' = "none"
    /\ UNCHANGED <<registry, constructed, insts, syncs, srcSubs, outSubs, cut>>

\* instance i emits ev: the input sink, if subscribed to i, receives it and passes
\* it on to its own listeners
SourceEmit(i, ev) ==
    /\ i \in 1..Len(insts)
    /\ sunk' = emit(srcSubs, InstIds, ev)[i]
    /\ heard' = IF sunk' # <<>> THEN emit(listeners, Listeners, sunk'[1])
                ELSE [l \in Listeners |-> <<>>]
    /\ made' = <<>>
    /\ optCalls' = [j \in InstIds |-> <<>>]
    /\ fed' = [j \in InstIds |-> <<>>]
    /\ call' = [op |-> "sourceEmit", inst |-> i, ev |-> ev]
    /\ err' = "none"
    /\ UNCHANGED <<registry, constructed, insts, syncs, srcSubs, outSubs, listeners, cut>>

\* ev is emitted on the aggregator's output sink
OutputEmit(ev) ==
    /\ constructed
    /\ fed' = emit(outSubs, InstIds, ev)
    /\ made' = <<>>
    /\ optCalls' = [j \in InstIds |-> <<>>]
    /\ sunk' = <<>>
    /\ heard' = [l \in Listeners |-> <<>>]
    /\ call' = [op |-> "outputEmit", ev |-> ev]
    /\ err' = "none"
    /\ UNCHANGED <<registry, constructed, insts, syncs, srcSubs, outSubs, listeners, cut>>

Init ==
    /\ registry = [k \in Keys |-> NoFactory]
    /\ constructed = FALSE
    /\ insts = <<>>
    /\ syncs = [k \in Keys |-> NoInst]
    /\ srcSubs = {}
    /\ outSubs = {}
    /\ listeners = {}
    /\ cut = {}
    /\ call = [op |-> "init"]
    /\ err = "none"
    /\ made = <<>>
    /\ optCalls = [i \in InstIds |-> <<>>]
    /\ sunk = <<>>
    /\ heard = [l \in Listeners |-> <<>>]
    /\ fed = [i \in InstIds |-> <<>>]

Next ==
    \/ \E e \in EntriesSet : register(e)
    \/ \E arg \in SyncsArgs \cup {NoSyncs}, o \in Opts \cup {NoOpts} : GenericInput(arg, o)
    \/ \E arg \in SyncsArgs : addInput(arg)
    \/ \E o \in Opts : setOptions(o)
    \/ \E k \in AllKeys : subscribeInput(k)
    \/ \E k \in AllKeys : unsubscribeInput(k)
    \/ \E l \in Listeners : ListenerSubscribe(l)
    \/ \E i \in InstIds, ev \in Events : SourceEmit(i, ev)
    \/ \E ev \in Events : OutputEmit(ev)

Spec == Init /\ [][Next]_vars

\* the registry alone: the calls made before any aggregator exists
NextRegistry == \E e \in EntriesSet : register(e)

SpecRegistry == Init /\ [][NextRegistry]_vars

\* ================================================================ claims
Created == 1..Len(insts)
Held    == {syncs[k] : k \in {x \in Keys : syncs[x] # NoInst}}
Orphans == Created \ Held
Silent  == [l \in Listeners |-> <<>>]

\* no key of e is bound in reg to a factory other than the one e gives it
NoConflict(reg, e) ==
    \A i \in 1..Len(e) : reg[e[i].key] \in {NoFactory, e[i].factory}

\* C1: after register(entries) with no conflicting key, every key of entries
\* is bound to the factory given for it, also the keys that follow an
\* identical repeat.
C1_EveryKeyBound ==
    [][(call'.op = "register" /\ NoConflict(registry, call'.arg))
        => \A i \in 1..Len(call'.arg) :
              registry'[call'.arg[i].key] = call'.arg[i].factory]_vars

\* C2: register with a key already bound to a different factory raises an
\* error, and no bound key is rebound or removed.
C2_ConflictThrows ==
    [][(call'.op = "register" /\ ~NoConflict(registry, call'.arg))
        => /\ err' = "Error"
           /\ \A k \in Keys : registry[k] # NoFactory => registry'[k] = registry[k]]_vars

\* C3: a second register(entries) with the same keys and the identical
\* factories, after a first one that succeeded, succeeds and leaves the whole
\* registry as the first call left it.
C3_RegisterIdempotent ==
    [][(call.op = "register" /\ err = "none"
            /\ call'.op = "register" /\ call'.arg = call.arg)
        => (err' = "none" /\ registry' = registry)]_vars

C3_Witness ==
    /\ call.op = "register"
    /\ call.again
    /\ Len(call.arg) = 2
    /\ err = "none"
    /\ \A i \in 1..Len(call.arg) : registry[call.arg[i].key] = call.arg[i].factory

\* key was registered: the registry binds it to a factory
InRegistry(key) == key \in Keys /\ registry[key] # NoFactory

\* the options the constructor's `syncs` argument gives for key k
GivenOptions(arg, k) ==
    IF arg.form = "seq" THEN {NoOpts}
    ELSE {arg.items[i].options : i \in {j \in 1..Len(arg.items) : arg.items[j].key = k}}

C5_PassThrough ==
    (call.op = "sourceEmit" /\ call.inst \notin cut) =>
        /\ sunk = <<call.ev>>
        /\ \A l \in Listeners : heard[l] = IF l \in listeners THEN <<call.ev>> ELSE <<>>

C5_Witness ==
    /\ call.op = "sourceEmit"
    /\ call.inst \in Held \ cut
    /\ listeners = Listeners
    /\ call.ev = [type |-> "update", payload |-> "P2"]
    /\ \A l \in Listeners : heard[l] = <<call.ev>>

\* C6 as stated: an event emitted on the output sink reaches every instance
\* held in the key-to-instance map, whatever calls came before.
C6_OutputReachesAllHeld ==
    call.op = "outputEmit" => \A i \in Held : fed[i] = <<call.ev>>

\* C6 (amended): an event emitted on the output sink reaches, exactly once,
\* every instance held in the map whose key has not been unsubscribed since
\* the instance was added or last subscribed.
C6_OutputReachesSubscribedHeld ==
    call.op = "outputEmit" => \A i \in Held \ cut : fed[i] = <<call.ev>>

C6_Witness ==
    /\ call.op = "outputEmit"
    /\ Cardinality(Held) = 2
    /\ Cardinality(Held \ cut) = 1
    /\ \A i \in Held : fed[i] = IF i \in cut THEN <<>> ELSE <<call.ev>>

\* keys on which unsubscribeInput ran with no subscribeInput or addInput since
CutKeys == {k \in Keys : syncs[k] # NoInst /\ syncs[k] \in cut}

\* C7 as stated: once unsubscribeInput(key) ran and until subscribeInput(key)
\* runs, no event of any source created for key reaches the input sink and no
\* output-sink event reaches such a source.
C7_KeySevered ==
    /\ (call.op = "sourceEmit" /\ insts[call.inst].key \in CutKeys) =>
          (sunk = <<>> /\ heard = Silent)
    /\ call.op = "outputEmit" =>
          \A i \in Created : insts[i].key \in CutKeys => fed[i] = <<>>

\* C7 (amended): once unsubscribeInput(key) ran, the instance held under key
\* at that call is severed in both directions until subscribeInput(key) runs
\* while that instance is still the one held under key.
C7_HeldInstanceSevered ==
    /\ (call.op = "sourceEmit" /\ call.inst \in cut) => (sunk = <<>> /\ heard = Silent)
    /\ call.op = "outputEmit" => \A i \in cut : fed[i] = <<>>

C7_Witness ==
    /\ call.op = "sourceEmit"
    /\ call.inst \in cut
    /\ call.inst \in Held
    /\ listeners = Listeners
    /\ sunk = <<>>
    /\ heard = Silent

Registered(arg) ==
    {j \in 1..Len(arg.items) : InRegistry(arg.items[j].key)}

\* what an addInput step does when every unregistered key is skipped in
\* silence and every registered key is processed
SkipsUnregistered ==
    /\ err' = "none"
    /\ \A k \in Keys \ {call'.arg.items[j].key : j \in Registered(call'.arg)} :
          syncs'[k] = syncs[k]
    /\ \A n \in 1..Len(made') : made'[n].factory \in Factories
    /\ Len(made') = Cardinality(Registered(call'.arg))
    /\ Len(insts') = Len(insts) + Cardinality(Registered(call'.arg))
    /\ srcSubs' \cap Created = srcSubs
    /\ outSubs' \cap Created = outSubs
    /\ \A j \in Registered(call'.arg) :
          LET k == call'.arg.items[j].key IN
            /\ syncs'[k] > Len(insts)
            /\ syncs'[k] \in srcSubs' \cap outSubs'

\* C9: addInput raises no error; a key that is not in the registry constructs
\* nothing and leaves the source map and every subscription as they were,
\* while each registered key of the same call gets a new, subscribed instance.
C9_UnregisteredSkipped ==
    [][call'.op = "addInput" => SkipsUnregistered]_vars

\* C9 holds of the keys that name no member of Object.prototype.
C9_SkippedUnlessInherited ==
    [][(call'.op = "addInput"
            /\ \A j \in 1..Len(call'.arg.items) : call'.arg.items[j].key \in Keys)
        => SkipsUnregistered]_vars

\* C10: an instance replaced in the source map by a later addInput of its key
\* is not unsubscribed: if it was wired when replaced it stays wired in both
\* directions whatever addInput, subscribeInput and unsubscribeInput calls
\* follow, so its events still reach the input sink and output-sink events
\* still reach it.
C10_OrphanStaysWired ==
    /\ \A i \in Orphans \ cut : i \in srcSubs /\ i \in outSubs
    /\ (call.op = "sourceEmit" /\ call.inst \in Orphans \ cut) =>
          (sunk = <<call.ev>> /\ \A l \in listeners : heard[l] = <<call.ev>>)
    /\ call.op = "outputEmit" => \A i \in Orphans \ cut : fed[i] = <<call.ev>>

C10_Witness ==
    /\ call.op = "sourceEmit"
    /\ call.inst \in Orphans \ cut
    /\ insts[call.inst].key \in CutKeys
    /\ listeners # {}
    /\ sunk = <<call.ev>>
    /\ \A l \in listeners : heard[l] = <<call.ev>>
====
